---- MODULE Spec2Model ----
(***************************************************************************)
(* The Paillier scheme of cryptoscheme.go: key generation, encryption,    *)
(* decryption and the homomorphic operations Add, Mul and Sub.            *)
(*                                                                         *)
(* The scheme object holds only the two primes P and Q.  Every method is  *)
(* a function of its arguments, so the state besides P and Q is what a    *)
(* caller holds during one session: the private key GenKeypair returned,  *)
(* two ciphertexts (acc and b), the plaintext the last Decrypt returned,  *)
(* and a panic raised by GenKeypair or Sub.  Fields marked "history" are  *)
(* not program values: they record what a ciphertext was made from.       *)
(***************************************************************************)
EXTENDS Integers, FiniteSets, TLC

VARIABLES
    P,      \* paillier.P
    Q,      \* paillier.Q
    key,    \* the *PrivateKey GenKeypair returned, NoKey before that
    err,    \* "none", or the error a method panicked with
    acc,    \* a ciphertext the caller holds: the result of the last operation
    b,      \* a second ciphertext the caller holds: a fresh operand
    d,      \* the *PrivateValue the last Decrypt returned
    last,   \* history: the last call other than Decrypt, with its operands
    nops    \* number of homomorphic calls made in this session

vars == <<P, Q, key, err, acc, b, d, last, nops>>

(***************************************************************************)
(* Bounds of the model.                                                    *)
(***************************************************************************)
\* largest prime of a scheme whose session uses two ciphertexts
MaxPrime == 5
\* largest prime of a scheme whose session uses one ciphertext
MaxKeyPrime == 13
\* plaintexts and scalars run up to n + MaxOver where the range is not checked
MaxOver == 2
\* homomorphic calls per session
MaxOps == 3

IsPrime(x) == x > 1 /\ \A e \in 2..(x - 1) : x % e # 0

OddPrimes(max) == {x \in 3..max : IsPrime(x)}

\* gcd(x, m) = 1, by the definition of a common divisor (m > 1)
Coprime(x, m) == \A e \in 2..m : ~(x % e = 0 /\ m % e = 0)

(***************************************************************************)
(* Modular Arithmetic Toolkit (spec section 4.1).                          *)
(***************************************************************************)
square(x) == x * x

inc(x) == x + 1

dec(x) == x - 1

RECURSIVE gcd(_, _)
gcd(x, y) == IF y = 0 THEN x ELSE gcd(y, x % y)

lcm(x, y) == (x * y) \div gcd(x, y)

\* modpow by repeated squaring; the exponent is non-negative
RECURSIVE pow(_, _, _)
pow(base, e, m) ==
    IF e = 0 THEN 1 % m
    ELSE LET half == pow(base, e \div 2, m)
             sq   == (half * half) % m
         IN  IF e % 2 = 1 THEN (sq * base) % m ELSE sq

\* extended Euclid: [g, x, y] with u*x + v*y = g = gcd(u, v)
RECURSIVE egcd(_, _)
egcd(u, v) ==
    IF v = 0 THEN [g |-> u, x |-> 1, y |-> 0]
    ELSE LET t == egcd(v, u % v)
         IN  [g |-> t.g, x |-> t.y, y |-> t.x - (u \div v) * t.y]

\* modinv: the inverse of x modulo m, or InverseError when gcd(x, m) # 1
rev(x, m) ==
    LET t == egcd(x % m, m)
    IN  IF t.g # 1 THEN [err |-> "InverseError", val |-> 0]
        ELSE [err |-> "none", val |-> t.x % m]

\* L(x, n) = (x - 1) / n, integer division
l(x, n) == (x - 1) \div n

\* modmul
bigMul(x, y, m) == (x * y) % m

(***************************************************************************)
(* The methods of paillier, as functions of their arguments.               *)
(***************************************************************************)
NoKey == [n |-> 0, nn |-> 0, g |-> 0, h |-> 0, u |-> 0]

\* the embedded PublicKey of a PrivateKey
PublicKey(sk) == [n |-> sk.n, nn |-> sk.nn, g |-> sk.g]

\* GenKeypair with h = (p-1)(q-1) in place of lcm(p-1, q-1)
GenKeypairPhi(p, q) ==
    LET n  == p * q
        nn == square(n)
        g  == inc(n)
        h  == dec(p) * dec(q)
        ru == rev(l(pow(g, h, nn), n), n)
    IN  IF ru.err # "none"
        THEN [err |-> ru.err, key |-> NoKey]
        ELSE [err |-> "none",
              key |-> [n |-> n, nn |-> nn, g |-> g, h |-> h, u |-> ru.val]]

\* GenKeypair: the key, or the error it panics with
GenKeypair(p, q) ==
    LET n  == p * q
        nn == square(n)
        g  == inc(n)
        h  == lcm(dec(p), dec(q))
        ru == rev(l(pow(g, h, nn), n), n)
    IN  IF ru.err # "none"
        THEN [err |-> ru.err, key |-> NoKey]
        ELSE [err |-> "none",
              key |-> [n |-> n, nn |-> nn, g |-> g, h |-> h, u |-> ru.val]]

\* rand.Int(reader, n): a value in [0, n)
RandInt(n) == 0..(n - 1)

\* Encrypt with r^n reduced modulo n in place of n^2
EncryptBlindModN(pk, m, r) ==
    LET s1 == pow(pk.g, m, pk.nn)
        s2 == pow(r, pk.n, pk.n)
    IN  bigMul(s1, s2, pk.nn)

\* Encrypt with the blinding factor r itself in place of r^n
EncryptNoBlindPow(pk, m, r) ==
    LET s1 == pow(pk.g, m, pk.nn)
    IN  bigMul(s1, r, pk.nn)

\* Encrypt with the blinding factor r that rand.Int returned
Encrypt(pk, m, r) ==
    LET s1 == pow(pk.g, m, pk.nn)
        s2 == pow(r, pk.n, pk.nn)
    IN  bigMul(s1, s2, pk.nn)

\* Decrypt without the factor u
DecryptNoU(sk, c) ==
    LET ch   == pow(c, sk.h, sk.nn)
        lVal == l(ch, sk.n)
    IN  bigMul(lVal, 1, sk.n)

Decrypt(sk, c) ==
    LET ch   == pow(c, sk.h, sk.nn)
        lVal == l(ch, sk.n)
    IN  bigMul(lVal, sk.u, sk.n)

\* Add as a sum of the ciphertexts
AddSum(x, y, pk) == (x + y) % pk.nn

Add(x, y, pk) == bigMul(x, y, pk.nn)

\* Mul as a product of the ciphertext and the scalar
MulProduct(x, k, pk) == bigMul(x, k, pk.nn)

Mul(x, k, pk) == pow(x, k, pk.nn)

\* Sub with the operands exchanged
SubSwapped(x, y, pk) ==
    LET revA == rev(x, pk.nn)
    IN  IF revA.err # "none"
        THEN [err |-> revA.err, val |-> 0]
        ELSE [err |-> "none", val |-> bigMul(y, revA.val, pk.nn)]

\* Sub that does not look at the error of rev
SubUnchecked(x, y, pk) ==
    LET revB == rev(y, pk.nn)
    IN  [err |-> "none", val |-> bigMul(x, revB.val, pk.nn)]

\* Sub with the inverse taken modulo n in place of n^2
SubModN(x, y, pk) ==
    LET revB == rev(y, pk.n)
    IN  IF revB.err # "none"
        THEN [err |-> revB.err, val |-> 0]
        ELSE [err |-> "none", val |-> bigMul(x, revB.val, pk.nn)]

\* Sub: the ciphertext, or the error it panics with
Sub(x, y, pk) ==
    LET revB == rev(y, pk.nn)
    IN  IF revB.err # "none"
        THEN [err |-> revB.err, val |-> 0]
        ELSE [err |-> "none", val |-> bigMul(x, revB.val, pk.nn)]

(***************************************************************************)
(* What the caller holds.                                                  *)
(*   val  the ciphertext (PublicValue.Val)                                 *)
(*   pt   history: the plaintext passed to Encrypt, or for a result the    *)
(*        value of its expression over the plaintexts, reduced mod n       *)
(*        (0 when ok is FALSE: such a result stands for no plaintext)      *)
(*   r    history: the blinding factor Encrypt drew (0 for a result)       *)
(*   ok   history: made by Encrypt with r coprime to n, or from such       *)
(*   src  history: "Encrypt" for what Encrypt returned, "op" for what Add,  *)
(*        Mul or Sub returned, "none" when nothing is held                 *)
(***************************************************************************)
NoVal == [val |-> 0, pt |-> 0, r |-> 0, ok |-> FALSE, src |-> "none"]

Fresh(pk, m, r) ==
    [val |-> Encrypt(pk, m, r), pt |-> m, r |-> r,
     ok |-> Coprime(r, pk.n), src |-> "Encrypt"]

Result(c, pt, ok) ==
    [val |-> c, pt |-> IF ok THEN pt ELSE 0, r |-> 0, ok |-> ok, src |-> "op"]

NoPlain == [set |-> FALSE, val |-> 0]

\* history of a call: prim says that every ciphertext operand came straight
\* from Encrypt with a plaintext in [0, n) and a blinding factor coprime to
\* n; x and y are then the plaintexts of the left and right operand (y is
\* the scalar of Mul), and 0 otherwise; form names the operands
Call(op, x, y, prim, form) ==
    [op |-> op, x |-> IF prim THEN x ELSE 0, y |-> IF prim THEN y ELSE 0,
     prim |-> prim, form |-> form]

NoCall == Call("none", 0, 0, FALSE, "none")

Prim(c) == c.src = "Encrypt" /\ c.ok /\ c.pt < key.n

\* operand pairs of a binary call: acc with b, b with acc, acc with itself
Left(form)  == IF form = "ba" THEN b ELSE acc
Right(form) == IF form = "ab" THEN b ELSE acc

\* plaintexts and scalars handed to a method that does not check the range
Unchecked(n) == 0..(n + MaxOver)

Running == err = "none" /\ key # NoKey /\ ~d.set

(***************************************************************************)
(* Actions: one per call.                                                  *)
(***************************************************************************)
CallGenKeypair ==
    /\ key = NoKey /\ err = "none"
    /\ LET res == GenKeypair(P, Q)
       IN  /\ key' = res.key
           /\ err' = res.err
    /\ last' = Call("GenKeypair", 0, 0, FALSE, "none")
    /\ UNCHANGED <<P, Q, acc, b, d, nops>>

\* Encrypt of a plaintext in [0, n), kept as acc
CallEncryptAcc ==
    /\ Running /\ acc.src = "none"
    /\ \E m \in 0..(key.n - 1), r \in RandInt(key.n) :
           acc' = Fresh(PublicKey(key), m, r)
    /\ last' = Call("Encrypt", 0, 0, FALSE, "none")
    /\ UNCHANGED <<P, Q, key, err, b, d, nops>>

\* Encrypt of any plaintext, in range or not, kept as acc
CallEncryptAny ==
    /\ Running /\ acc.src = "none"
    /\ \E m \in Unchecked(key.n), r \in RandInt(key.n) :
           acc' = Fresh(PublicKey(key), m, r)
    /\ last' = Call("Encrypt", 0, 0, FALSE, "none")
    /\ UNCHANGED <<P, Q, key, err, b, d, nops>>

\* Encrypt of a plaintext in [0, n), kept as the operand b
CallEncryptB ==
    /\ Running /\ acc.src # "none" /\ b.src = "none" /\ nops < MaxOps
    /\ \E m \in 0..(key.n - 1), r \in RandInt(key.n) :
           b' = Fresh(PublicKey(key), m, r)
    /\ last' = Call("Encrypt", 0, 0, FALSE, "none")
    /\ UNCHANGED <<P, Q, key, err, acc, d, nops>>

CallAdd ==
    /\ Running /\ nops < MaxOps
    /\ \E form \in {"ab", "aa"} :
         LET x == Left(form)
             y == Right(form)
         IN  /\ x.src # "none" /\ y.src # "none"
             /\ acc' = Result(Add(x.val, y.val, PublicKey(key)),
                              (x.pt + y.pt) % key.n, x.ok /\ y.ok)
             /\ b' = IF form = "aa" THEN b ELSE NoVal
             /\ last' = Call("Add", x.pt, y.pt, Prim(x) /\ Prim(y), form)
    /\ nops' = nops + 1
    /\ UNCHANGED <<P, Q, key, err, d>>

CallMul ==
    /\ Running /\ nops < MaxOps
    /\ acc.src # "none" /\ b.src = "none"
    /\ \E k \in Unchecked(key.n) :
         /\ acc' = Result(Mul(acc.val, k, PublicKey(key)),
                          (acc.pt * k) % key.n, acc.ok)
         /\ last' = Call("Mul", acc.pt, k, Prim(acc), "a")
    /\ nops' = nops + 1
    /\ UNCHANGED <<P, Q, key, err, b, d>>

CallSub ==
    /\ Running /\ nops < MaxOps
    /\ \E form \in {"ab", "ba", "aa"} :
         LET x   == Left(form)
             y   == Right(form)
             res == Sub(x.val, y.val, PublicKey(key))
         IN  /\ x.src # "none" /\ y.src # "none"
             /\ last' = Call("Sub", x.pt, y.pt, Prim(x) /\ Prim(y), form)
             /\ IF res.err # "none"
                THEN /\ err' = res.err
                     /\ UNCHANGED <<acc, b, nops>>
                ELSE /\ acc' = Result(res.val, (x.pt - y.pt) % key.n,
                                      x.ok /\ y.ok)
                     /\ b' = IF form = "aa" THEN b ELSE NoVal
                     /\ nops' = nops + 1
                     /\ err' = err
    /\ UNCHANGED <<P, Q, key, d>>

CallDecrypt ==
    /\ Running /\ acc.src # "none"
    /\ d' = [set |-> TRUE, val |-> Decrypt(key, acc.val)]
    /\ UNCHANGED <<P, Q, key, err, acc, b, last, nops>>

(***************************************************************************)
(* Specifications.                                                         *)
(***************************************************************************)
Start ==
    /\ key = NoKey /\ err = "none"
    /\ acc = NoVal /\ b = NoVal /\ d = NoPlain
    /\ last = NoCall /\ nops = 0

\* a scheme whose fields P and Q hold two distinct odd primes (the
\* precondition of key generation); sessions use two ciphertexts
Init ==
    /\ P \in OddPrimes(MaxPrime) /\ Q \in OddPrimes(MaxPrime) /\ P # Q
    /\ Start

Next ==
    \/ CallGenKeypair
    \/ CallEncryptAcc
    \/ CallEncryptB
    \/ CallAdd
    \/ CallMul
    \/ CallSub
    \/ CallDecrypt

Spec == Init /\ [][Next]_vars

\* a scheme whose fields P and Q hold any two odd primes, equal ones
\* included (the two draws of rand.Prime are independent); sessions encrypt
\* and decrypt one ciphertext
InitKeys ==
    /\ P \in OddPrimes(MaxKeyPrime) /\ Q \in OddPrimes(MaxKeyPrime)
    /\ Start

NextKeys ==
    \/ CallGenKeypair
    \/ CallEncryptAny
    \/ CallDecrypt

SpecKeys == InitKeys /\ [][NextKeys]_vars

(***************************************************************************)
(* Properties.                                                             *)
(***************************************************************************)
\* acc came straight from Encrypt
FreshAcc == acc.src = "Encrypt"

\* h is the least common multiple of x and y, by definition
IsLcm(h, x, y) ==
    /\ h > 0 /\ h % x = 0 /\ h % y = 0
    /\ \A e \in 1..(h - 1) : ~(e % x = 0 /\ e % y = 0)

\* GenKeypair returned the key the scheme defines for P and Q
KeyGood ==
    /\ err = "none"
    /\ key.n = P * Q
    /\ key.nn = key.n * key.n
    /\ key.g = key.n + 1
    /\ IsLcm(key.h, P - 1, Q - 1)
    /\ key.u \in 0..(key.n - 1)
    /\ (key.u * l(pow(key.g, key.h, key.nn), key.n)) % key.n = 1
    /\ Coprime(key.n, key.h)

\* C1: round trip. Under a key made from two distinct odd primes, a
\* ciphertext Encrypt made of a plaintext m in [0, n) with a blinding factor
\* coprime to n decrypts to m.
C1_RoundTrip ==
    (d.set /\ P # Q /\ FreshAcc /\ acc.pt < key.n /\ Coprime(acc.r, key.n))
        => d.val = acc.pt

C1_Witness ==
    /\ d.set /\ P # Q /\ FreshAcc
    /\ acc.pt = key.n - 1 /\ acc.r > 1 /\ Coprime(acc.r, key.n)
    /\ d.val = acc.pt

C7_EveryDrawDecrypts ==
    (d.set /\ P # Q /\ FreshAcc /\ acc.pt < key.n) => d.val = acc.pt

\* C10: Encrypt takes a plaintext m >= n without an error; the ciphertext is
\* the one Encrypt makes of m mod n with the same blinding factor, and with
\* a blinding factor coprime to n it decrypts to m mod n.
C10_PlaintextReduced ==
    (FreshAcc /\ acc.pt >= key.n) =>
        /\ err = "none"
        /\ acc.val = Encrypt(PublicKey(key), acc.pt % key.n, acc.r)
        /\ (d.set /\ P # Q /\ Coprime(acc.r, key.n))
               => d.val = acc.pt % key.n

C10_Witness ==
    /\ d.set /\ P # Q /\ FreshAcc
    /\ acc.pt > key.n /\ acc.r > 1 /\ Coprime(acc.r, key.n)
    /\ d.val = acc.pt - key.n /\ d.val > 0

SubStep == last'.op = "Sub" /\ (nops' = nops + 1 \/ err' # err)

\* C5: Sub(a, b) panics with InverseError and returns no ciphertext exactly
\* when gcd(b, n^2) # 1; for every b coprime to n^2 it returns a ciphertext.
C5_SubFailsIffNotCoprime ==
    [][SubStep =>
        IF Coprime(Right(last'.form).val, key.nn)
        THEN err' = "none" /\ acc'.src = "op" /\ nops' = nops + 1
        ELSE err' = "InverseError" /\ acc' = acc /\ b' = b /\ nops' = nops]_vars

C5_Witness ==
    /\ err = "InverseError" /\ last.op = "Sub" /\ last.form = "ab"
    /\ b.val # 0 /\ b.val % P = 0

\* C8: the concrete vector of p = 3, q = 5.
C8_ConcreteVector ==
    (P = 3 /\ Q = 5 /\ key # NoKey) =>
        /\ key = [n |-> 15, nn |-> 225, g |-> 16, h |-> 4, u |-> 4]
        /\ \A c \in {acc, b} :
               /\ (c.src = "Encrypt" /\ c.pt = 2 /\ c.r = 7) => c.val = 58
               /\ (c.src = "Encrypt" /\ c.pt = 3 /\ c.r = 4) => c.val = 154
        /\ (acc.val = 58 /\ b.val = 154)
               => Add(acc.val, b.val, PublicKey(key)) = 157
        /\ d.set => /\ acc.val = 58 => d.val = 2
                    /\ acc.val = 154 => d.val = 3
                    /\ acc.val = 157 => d.val = 5

C8_Witness ==
    /\ P = 3 /\ Q = 5 /\ d.set
    /\ last.op = "Add" /\ last.prim /\ last.x = 2 /\ last.y = 3
    /\ acc.val = 157 /\ d.val = 5

\* C9: a ciphertext obtained by any sequence of Add, Mul and Sub from
\* ciphertexts Encrypt made with blinding factors coprime to n decrypts to
\* the value of the same expression over the plaintexts, reduced mod n, and
\* Sub does not fail on such operands.
C9_ChainsDecrypt ==
    /\ (d.set /\ acc.src = "op" /\ acc.ok) => d.val = acc.pt
    /\ (err = "InverseError" /\ last.op = "Sub") => ~Right(last.form).ok

C9_Witness ==
    /\ d.set /\ acc.src = "op" /\ acc.ok /\ nops = MaxOps
    /\ last.op = "Sub" /\ last.form = "ba" /\ ~last.prim
    /\ d.val = acc.pt /\ acc.pt > 1

====
